---- MODULE Spec2Model ----
(***************************************************************************)
(* A model of bananadoc's parsing core: the parsing-function registry and  *)
(* its dispatch (parse.py), the module parser and its hooks (parse.py),    *)
(* the default parsing functions and the data-section hook (defaults.py),  *)
(* the serialisation of a section tree (Section.dump), and the handling of *)
(* the output path by the command line (cmdline.py).                       *)
(*                                                                         *)
(* Section objects live in a heap (a sequence; the index is the object's   *)
(* identity), so that aliasing between subs lists is visible.  Text is a   *)
(* sequence of tokens; the token "\n" is a newline character.              *)
(***************************************************************************)
EXTENDS Integers, Sequences, FiniteSets, TLC

\* ------------------------------------------------------------------ bounds
\* Longest __all__ list of a documented module.
MaxMembers == 3
\* Parsing functions registered by user code on top of the defaults.
MaxRegister == 1
\* Calls of parse_module (each followed by a dump) in one process.
MaxRuns == 2
\* Largest titlelevel passed to Section.dump.
MaxTitleLevel == 2
\* The interpreter's recursion limit (nested generator frames).
RecursionLimit == 5
\* Longest __all__ list of a module whose tree user code walks, or that is
\* documented with module hooks of the user.
MaxShort == 2
\* Calls of walk_subs user code makes on one returned tree.
MaxWalks == 2
\* Times user code registers the same parsing function.
MaxCopies == 2
\* Answers the user gives to one question of the command line.
MaxPrompts == 3
\* Module hooks registered by user code on top of the default one.
MaxHooks == 1
\* Longest one-line module docstring, in characters.
MaxSummary == 3
\* Most names in the namespace of a module without __all__.
MaxAttrs == 4

\* ------------------------------------------------------------ Python values
\* Python's None for string-valued attributes, and for text-valued ones.
None == "None"
NoneSeq == <<"None">>

\* A documented runtime value: what the parsing functions look at.
\*   kind  : "int" | "str" | "func" | "classmethod" | "staticmethod" | "prop"
\*           | "class" | "enum" | "module"
\*   doc   : __doc__ (text, or NoneSeq)
\*   repr  : repr(value)
\*   sig   : str(inspect.signature(value)) of a function
\*   dict  : a class's __dict__ items in definition order, <<name, value>>
\*   bases : a class's __bases__, each [name, module]
PyValue(kind, doc, repr, sig, dict, bases) ==
    [kind |-> kind, doc |-> doc, repr |-> repr, sig |-> sig,
     dict |-> dict, bases |-> bases]

PyInt(repr) == PyValue("int", NoneSeq, repr, "", <<>>, <<>>)
PyStr(repr) == PyValue("str", NoneSeq, repr, "", <<>>, <<>>)
PyFunc(doc, sig) == PyValue("func", doc, "<function>", sig, <<>>, <<>>)
PyClassMethod(doc, sig) == PyValue("classmethod", doc, "<classmethod>", sig, <<>>, <<>>)
PyStaticMethod(doc, sig) ==
    PyValue("staticmethod", doc, "<staticmethod>", sig, <<>>, <<>>)
PyModule(doc) == PyValue("module", doc, "<module>", "", <<>>, <<>>)
PyProp(doc) == PyValue("prop", doc, "<property>", "", <<>>, <<>>)
PyClass(doc, dict, bases) == PyValue("class", doc, "<class>", "", dict, bases)
PyEnum(doc) == PyValue("enum", doc, "<enum>", "", <<>>, <<>>)

ObjectBase == [name |-> "object", module |-> "builtins"]
ExceptionBase == [name |-> "Exception", module |-> "builtins"]

\* The name of the documented module.
ModuleName == "mod"

\* class C: an undocumented constructor, a documented method and property,
\* and two data attributes.
ClassC ==
    PyClass(<<"Doc of C.">>,
            << <<"b", PyStr("'s'")>>,
               <<"a", PyInt("5")>>,
               <<"p", PyProp(<<"Doc of p.">>)>>,
               <<"m", PyFunc(<<"Doc of m.">>, "(self)")>>,
               <<"__init__", PyFunc(NoneSeq, "(self)")>> >>,
            <<ObjectBase>>)

\* class D(C): a documented method and an undocumented one.
ClassD ==
    PyClass(<<"Doc of D.">>,
            << <<"n", PyFunc(NoneSeq, "(self)")>>,
               <<"m", PyFunc(<<"Doc of m.">>, "(self)")>> >>,
            <<[name |-> "C", module |-> ModuleName]>>)

\* class P: an undocumented property.
ClassP == PyClass(<<"Doc of P.">>, << <<"q", PyProp(NoneSeq)>> >>, <<ObjectBase>>)

\* class U, undocumented.
ClassU == PyClass(NoneSeq, << <<"m", PyFunc(<<"Doc of m.">>, "(self)")>> >>,
                  <<ObjectBase>>)

\* class K: a data attribute, a staticmethod, a classmethod, a method and
\* a property, all documented.
ClassK ==
    PyClass(<<"Doc of K.">>,
            << <<"z", PyInt("1")>>,
               <<"s", PyStaticMethod(<<"Doc of s.">>, "()")>>,
               <<"c", PyClassMethod(<<"Doc of c.">>, "(cls)")>>,
               <<"m", PyFunc(<<"Doc of m.">>, "(self)")>>,
               <<"p", PyProp(<<"Doc of p.">>)>> >>,
            <<ObjectBase>>)

\* class Err(Exception)
ClassErr == PyClass(<<"Doc of Err.">>, <<>>, <<ExceptionBase>>)

\* The attributes of the documented module.
Names == {"x", "hello", "r", "f", "g", "C", "D", "P", "U", "E"}

ModuleAttr(name) ==
    CASE name = "x" -> PyInt("1")
      [] name = "hello" -> PyStr("'world'")
      [] name = "r" -> PyProp(NoneSeq)
      [] name = "f" -> PyFunc(<<"Doc of f.">>, "()")
      [] name = "g" -> PyFunc(NoneSeq, "(a, b)")
      [] name = "C" -> ClassC
      [] name = "D" -> ClassD
      [] name = "P" -> ClassP
      [] name = "U" -> ClassU
      [] name = "E" -> PyEnum(<<"Doc of E.">>)
      [] name = "F" -> PyEnum(NoneSeq)
      [] name = "K" -> ClassK
      [] name = "Err" -> ClassErr
      [] name = "_hidden" -> PyInt("2")
      [] name = "sub" -> PyModule(<<"Doc of sub.">>)
      [] name = "_priv" -> PyModule(<<"Doc of _priv.">>)
      [] name = "util" -> PyModule(<<"Doc of util.">>)
      [] name = "README" -> PyModule(<<"Doc of README.">>)

\* Python's ordering of the names used here (code point order).
NameOrder ==
    <<"C", "D", "E", "Err", "F", "K", "P", "README", "U", "__init__", "_hidden", "_priv",
      "a", "b", "c", "f", "g", "hello", "m", "n", "p", "q", "r", "s", "sub",
      "util", "x", "z">>

NameRank(name) == CHOOSE i \in 1..Len(NameOrder) : NameOrder[i] = name

startswith_underscore(name) == name \in {"__init__", "_hidden", "_priv"}

\* The module docstrings: none, and "Hi you.\n\nBody text.\n" (the summary
\* line is kept character by character, the rest line by line).
ModuleDoc ==
    <<"H", "i", " ", "y", "o", "u", ".", "\n", "\n", "Body text.", "\n">>

ModuleDocs == {NoneSeq, ModuleDoc}

\* The one-line docstrings of at most MaxSummary of these characters.
SummaryChars == {"A", "b", " ", ".", "!"}
SummaryDocs == UNION {[1..n -> SummaryChars] : n \in 0..MaxSummary}

\* Sequences of distinct names of length n.
RECURSIVE DistinctSeqs(_, _)
DistinctSeqs(S, n) ==
    IF n = 0 THEN {<<>>}
    ELSE UNION {{Append(s, x) : x \in S \ {s[i] : i \in 1..Len(s)}} :
                s \in DistinctSeqs(S, n - 1)}

AllLists == UNION {DistinctSeqs(Names, n) : n \in 0..MaxMembers}
ShortLists == UNION {DistinctSeqs(Names, n) : n \in 0..MaxShort}

\* A documented module.
\*   doc     : __doc__ (text, or NoneSeq)
\*   hasall  : whether it defines __all__, and then all is __all__
\*   dir     : the names dir() finds in it as it is imported
\*   package : whether it has a __path__
\*   files   : the names of the .py files of a package's directory
\*   packages: the names of the packages in a package's directory
Module(doc, hasall, all, names, package, files) ==
    [name |-> ModuleName, doc |-> doc, hasall |-> hasall, all |-> all,
     dir |-> names, package |-> package, files |-> files, packages |-> {}]

\* The names a module without __all__, or a package, may define, and the
\* .py files a package's directory may hold.
AttrNames == {"x", "hello", "f", "K", "E", "F", "Err", "_hidden"}
FileNames == {"sub", "_priv"}

\* A module is no package, or a package with some of the files.
PackageFiles == {<<FALSE, {}>>} \cup {<<TRUE, files>> : files \in SUBSET FileNames}

\* The modules without __all__, and the modules whose __all__ lists some
\* of their names and files.
SortedModules ==
    {Module(ModuleDoc, FALSE, <<>>, names, pf[1], pf[2]) :
        names \in {S \in SUBSET AttrNames : Cardinality(S) <= MaxAttrs},
        pf \in PackageFiles}
ListedModules ==
    UNION {{Module(ModuleDoc, TRUE, all, {all[i] : i \in 1..Len(all)} \ pf[2],
                   pf[1], pf[2]) :
               all \in UNION {DistinctSeqs(AttrNames \cup pf[2], n) : n \in 0..MaxShort}} :
           pf \in PackageFiles}

\* A plain module that lists its names in __all__.
PlainModule(doc, all) ==
    Module(doc, TRUE, all, {all[i] : i \in 1..Len(all)}, FALSE, {})

\* The modules with a one-line docstring and a function.
SummaryModules == {PlainModule(doc, <<"f">>) : doc \in SummaryDocs}

\* --------------------------------------------------------------- text helpers
RECURSIVE JoinStr(_, _)
JoinStr(parts, sep) ==
    IF parts = <<>> THEN ""
    ELSE IF Len(parts) = 1 THEN parts[1]
    ELSE parts[1] \o sep \o JoinStr(Tail(parts), sep)

\* '\n'.join(lines), as tokens.
RECURSIVE JoinLines(_)
JoinLines(lines) ==
    IF lines = <<>> THEN <<>>
    ELSE IF Len(lines) = 1 THEN <<lines[1]>>
    ELSE <<lines[1], "\n">> \o JoinLines(Tail(lines))

\* text.strip('\n')
RECURSIVE lstrip_nl(_)
lstrip_nl(text) ==
    IF text # <<>> /\ Head(text) = "\n" THEN lstrip_nl(Tail(text)) ELSE text

RECURSIVE rstrip_nl(_)
rstrip_nl(text) ==
    IF text # <<>> /\ text[Len(text)] = "\n"
    THEN rstrip_nl(SubSeq(text, 1, Len(text) - 1))
    ELSE text

strip_nl(text) == rstrip_nl(lstrip_nl(text))

\* line.lstrip(), for a line that starts with spaces.
RECURSIVE lstrip(_)
lstrip(text) ==
    IF text # <<>> /\ Head(text) = " " THEN lstrip(Tail(text)) ELSE text

\* inspect.cleandoc on text whose lines after the first carry no
\* indentation: the first line loses its leading whitespace, and the blank
\* lines at both ends go.
cleandoc(doc) == strip_nl(lstrip(doc))

\* text.partition('\n'): <<before, after>> the first newline.
RECURSIVE IndexOf(_, _, _)
IndexOf(text, tok, i) ==
    IF i > Len(text) THEN 0
    ELSE IF text[i] = tok THEN i
    ELSE IndexOf(text, tok, i + 1)

partition(text, tok) ==
    LET i == IndexOf(text, tok, 1)
    IN IF i = 0 THEN <<text, <<>>, <<>>>>
       ELSE <<SubSeq(text, 1, i - 1), <<tok>>, SubSeq(text, i + 1, Len(text))>>

\* The cased characters of the model's alphabet.
CasePairs == {<<"A", "a">>, <<"B", "b">>, <<"H", "h">>, <<"P", "p">>, <<"T", "t">>, <<"I", "i">>,
              <<"Y", "y">>, <<"O", "o">>, <<"U", "u">>}

c_isupper(c) == \E p \in CasePairs : p[1] = c
c_islower(c) == \E p \in CasePairs : p[2] = c
c_lower(c) == IF c_isupper(c) THEN (CHOOSE p \in CasePairs : p[1] = c)[2] ELSE c

\* str.isupper / str.islower: at least one cased character, and every
\* cased character of that case.
isupper(s) ==
    /\ \E i \in 1..Len(s) : c_isupper(s[i])
    /\ \A i \in 1..Len(s) : ~c_islower(s[i])
islower(s) ==
    /\ \E i \in 1..Len(s) : c_islower(s[i])
    /\ \A i \in 1..Len(s) : ~c_isupper(s[i])
lower(s) == [i \in 1..Len(s) |-> c_lower(s[i])]

RECURSIVE rstrip_chars(_, _)
rstrip_chars(s, chars) ==
    IF s # <<>> /\ s[Len(s)] \in chars
    THEN rstrip_chars(SubSeq(s, 1, Len(s) - 1), chars)
    ELSE s

\* (parts ranges over one value, which is worked out once)
_clean_summary(line) ==
    LET cleaned == {LET firstword == parts[1]
                        word == IF isupper(<<firstword[1]>>) /\ islower(Tail(firstword))
                                THEN lower(firstword)
                                ELSE firstword
                    IN rstrip_chars(word \o parts[2] \o parts[3], {".", "?", "!"}) :
                    parts \in {partition(line, " ")}}
    IN CHOOSE result \in cleaned : TRUE

\* The backquote character (a TLA+ string cannot hold it), and the fence
\* of a Markdown code block.
Backtick == "\\x60"
Fence == Backtick \o Backtick \o Backtick

RECURSIVE Concat(_)
Concat(chars) == IF chars = <<>> THEN "" ELSE Head(chars) \o Concat(Tail(chars))

\* ------------------------------------------------------------------ errors
NoError == [type |-> None, problem |-> ""]

\* NoDocstring(*problem): the parts are joined with dots.
NoDocstring(problem) == [type |-> "NoDocstring", problem |-> JoinStr(problem, ".")]

\* str() of a NoDocstring.
NoDocstring_str(e) == "'" \o e.problem \o "' doesn't have a docstring"

\* A failed assert statement, with its message.
AssertionError(msg) == [type |-> "AssertionError", problem |-> msg]
NotCaught == "the data parsing function didn't catch"
NotParsedEnum == "the enum parser didn't parse"
NotSet == "title or content wasn't set"
RecursionError == [type |-> "RecursionError", problem |-> ""]

\* ---------------------------------------------------------------- sections
\* A Section object.  value holds the kind of the documented value (all
\* that the parsing functions read of it); ds is the _datasection attribute
\* (a heap index, 0 while the attribute is not set); data is a
\* DataSection's list of <<name, repr>> pairs.
Section(cls, title, content, location, name, value) ==
    [cls |-> cls, title |-> title, content |-> content, subs |-> <<>>,
     location |-> location, name |-> name, value |-> value,
     data |-> <<>>, ds |-> 0]

\* Mutation of ObjectSection: the content keyword is not passed on to
\* Section.__init__.
ObjectSection_NoContent(location, name, value, title, content) ==
    Section("ObjectSection", title, NoneSeq, location, name, value.kind)

ObjectSection(location, name, value, title, content) ==
    Section("ObjectSection", title, content, location, name, value.kind)

DataSection == Section("DataSection", "Other data", NoneSeq, None, None, None)

fullname(heap, s) ==
    IF heap[s].location = None THEN heap[s].name
    ELSE heap[s].location \o "." \o heap[s].name

\* One line of a DataSection's content.
DataLine(name, repr) == name \o " = " \o Backtick \o repr \o Backtick

\* Section.content; a DataSection computes it from its data.
content(heap, s) ==
    IF heap[s].cls = "DataSection"
    THEN JoinLines(<<Fence>>
                   \o [i \in 1..Len(heap[s].data) |->
                         DataLine(heap[s].data[i][1], heap[s].data[i][2])]
                   \o <<Fence>>)
    ELSE heap[s].content

\* parentsect.subs.append(section), section being a new object.
AppendNew(heap, parentsect, section) ==
    [Append(heap, section) EXCEPT ![parentsect].subs = Append(@, Len(heap) + 1)]

\* -------------------------------------------------- the parsing functions
\* The state a parsing function works on: the heap, the log of the calls
\* made to parsing functions, the pending exception and the return value.
Return(st, heap, result) == [st EXCEPT !.heap = heap, !.result = result]
Raise(st, e) == [st EXCEPT !.error = e, !.result = FALSE]

DefaultFuncs ==
    <<"parse_data", "parse_function", "parse_property", "parse_class", "parse_enum">>

\* The parsing function of parsingfunc's documentation.
CustomFuncs == {"parse_string"}

DefaultHooks == <<"add_datasections">>

\* A module hook of user code: it looks at the root section and returns.
CustomHooks == {"user_hook"}

\* Mutation of datasect_of: a new DataSection at every call.
datasect_of_Fresh(heap, section) ==
    [Append(heap, DataSection) EXCEPT ![section].ds = Len(heap) + 1]

\* section._datasection, created on first use.
datasect_of(heap, section) ==
    IF heap[section].ds # 0 THEN heap
    ELSE [Append(heap, DataSection) EXCEPT ![section].ds = Len(heap) + 1]

\* Mutation of parse_data: strings are left to another parsing function.
parse_data_NoStrings(st, section, name, value) ==
    IF value.kind = "str" THEN Return(st, st.heap, FALSE)
    ELSE LET heap1 == datasect_of(st.heap, section)
             datasect == heap1[section].ds
         IN Return(st, [heap1 EXCEPT ![datasect].data =
                                         Append(@, <<name, value.repr>>)],
                   TRUE)

parse_data(st, section, name, value) ==
    LET heap1 == datasect_of(st.heap, section)
        datasect == heap1[section].ds
    IN Return(st, [heap1 EXCEPT ![datasect].data = Append(@, <<name, value.repr>>)],
              TRUE)

parse_function(st, parentsect, name, value) ==
    IF value.kind # "func" THEN Return(st, st.heap, FALSE)
    ELSE IF value.doc = NoneSeq
    THEN Raise(st, NoDocstring(<<fullname(st.heap, parentsect), name>>))
    ELSE Return(st,
                AppendNew(st.heap, parentsect,
                          ObjectSection(fullname(st.heap, parentsect), name, value,
                                        name \o value.sig, cleandoc(value.doc))),
                TRUE)

\* isinstance(parentsect.value, type)
value_is_type(heap, s) == heap[s].value \in {"class", "enum"}

parse_property(st, parentsect, name, value) ==
    IF value.kind # "prop" THEN Return(st, st.heap, FALSE)
    ELSE IF ~value_is_type(st.heap, parentsect) THEN Return(st, st.heap, FALSE)
    ELSE IF value.doc = NoneSeq
    THEN Raise(st, NoDocstring(<<fullname(st.heap, parentsect), name>>))
    ELSE Return(st,
                AppendNew(st.heap, parentsect,
                          ObjectSection(fullname(st.heap, parentsect), name, value,
                                        "The " \o name \o " property",
                                        cleandoc(value.doc))),
                TRUE)

\* Mutation of parse_enum: an undocumented enum class gets a section with
\* a list in place of the docstring.
parse_enum_Listed(st, parentsect, name, value) ==
    IF value.kind # "enum" THEN Return(st, st.heap, FALSE)
    ELSE Return(st,
                AppendNew(st.heap, parentsect,
                          ObjectSection(fullname(st.heap, parentsect), name, value,
                                        "enum " \o name,
                                        IF value.doc = NoneSeq THEN <<"- *A*">>
                                        ELSE cleandoc(value.doc))),
                TRUE)

parse_enum(st, parentsect, name, value) ==
    IF value.kind # "enum" THEN Return(st, st.heap, FALSE)
    ELSE IF value.doc = NoneSeq
    THEN Raise(st, NoDocstring(<<fullname(st.heap, parentsect), name>>))
    ELSE Return(st,
                AppendNew(st.heap, parentsect,
                          ObjectSection(fullname(st.heap, parentsect), name, value,
                                        "enum " \o name, cleandoc(value.doc))),
                TRUE)

\* The example parsing function of parsingfunc's documentation.
parse_string(st, parentsection, name, value) ==
    IF value.kind # "str" THEN Return(st, st.heap, FALSE)
    ELSE Return(st,
                AppendNew(st.heap, parentsection,
                          ObjectSection(fullname(st.heap, parentsection), name, value,
                                        "The '" \o name \o "' string",
                                        <<"The value of this string is " \o Backtick
                                          \o value.repr \o Backtick \o ".">>)),
                TRUE)

\* getattr(cls, name) for a name of the class's own __dict__: the
\* descriptors are applied, so a classmethod comes as a bound method and a
\* staticmethod as the plain function it wraps; a function and a property
\* come as they are.
getattr_class(cls, name) ==
    LET value == cls.dict[CHOOSE i \in 1..Len(cls.dict) : cls.dict[i][1] = name][2]
    IN IF value.kind = "classmethod" THEN [value EXCEPT !.kind = "method"]
       ELSE IF value.kind = "staticmethod" THEN [value EXCEPT !.kind = "func"]
       ELSE value

\* _class_sorting_key
_class_sorting_key(cls, name) ==
    LET value == getattr_class(cls, name)
    IN IF value.kind = "func" THEN <<1, NameRank(name)>>
       ELSE IF value.kind = "classmethod" THEN <<2, NameRank(name)>>
       ELSE IF value.kind = "staticmethod" THEN <<3, NameRank(name)>>
       ELSE IF value.kind = "prop" THEN <<4, NameRank(name)>>
       ELSE <<5, NameRank(name)>>

KeyLess(k1, k2) == k1[1] < k2[1] \/ (k1[1] = k2[1] /\ k1[2] < k2[2])

\* The names parse_class walks: the public names of the class's own
\* __dict__ and __init__, sorted by _class_sorting_key.
class_names(cls) ==
    LET all == [i \in 1..Len(cls.dict) |-> cls.dict[i][1]]
        Keep(name) == name = "__init__" \/ ~startswith_underscore(name)
        Before(a, b) == KeyLess(_class_sorting_key(cls, a), _class_sorting_key(cls, b))
    IN SortSeq(SelectSeq(all, Keep), Before)

\* cls.__dict__[name]
class_dict(cls, name) ==
    cls.dict[CHOOSE i \in 1..Len(cls.dict) : cls.dict[i][1] = name][2]

\* The base classes shown in a class's title.
RECURSIVE class_bases(_, _, _)
class_bases(cls, parentname, i) ==
    IF i > Len(cls.bases) THEN <<>>
    ELSE LET baseclass == cls.bases[i]
             rest == class_bases(cls, parentname, i + 1)
         IN IF baseclass.name = "object" \/ startswith_underscore(baseclass.name)
            THEN rest
            ELSE IF baseclass.module \in {parentname, "builtins"}
            THEN <<baseclass.name>> \o rest
            ELSE <<baseclass.module \o "." \o baseclass.name>> \o rest

class_displayname(cls, classname, parentname) ==
    LET bases == class_bases(cls, parentname, 1)
    IN IF bases # <<>> THEN classname \o "(" \o JoinStr(bases, ", ") \o ")"
       ELSE classname

\* Mutation of reversed: the registry is walked oldest first.
reversed_Forward(funcs) == funcs

\* reversed(_parsingfuncs)
reversed(funcs) == [i \in 1..Len(funcs) |-> funcs[Len(funcs) + 1 - i]]

\* Mutation of reraise: the NoDocstring of __init__ is raised again too.
reraise_Always(name) == TRUE

\* parse_class's except clause: the NoDocstring of a member is raised again
\* unless the member is __init__.
reraise(name) == name # "__init__"

RECURSIVE parse_object(_, _, _, _, _)
RECURSIVE parse_class_members(_, _, _, _, _, _)

parse_class(st, funcs, parentsect, classname, cls) ==
    IF cls.kind \notin {"class", "enum"} THEN Return(st, st.heap, FALSE)
    ELSE IF cls.kind = "enum" THEN Raise(st, AssertionError(NotParsedEnum))
    ELSE IF cls.doc = NoneSeq
    THEN Raise(st, NoDocstring(<<fullname(st.heap, parentsect), classname>>))
    ELSE LET parentname == fullname(st.heap, parentsect)
             section == Len(st.heap) + 1
             heap1 == AppendNew(st.heap, parentsect,
                                ObjectSection(parentname, classname, cls,
                                              "class " \o class_displayname(
                                                  cls, classname, parentname),
                                              cleandoc(cls.doc)))
         IN parse_class_members([st EXCEPT !.heap = heap1], funcs, section, cls,
                                class_names(cls), 1)

\* One call of a parsing function.
CallFunc(f, st, funcs, section, name, value) ==
    CASE f = "parse_data" -> parse_data(st, section, name, value)
      [] f = "parse_function" -> parse_function(st, section, name, value)
      [] f = "parse_property" -> parse_property(st, section, name, value)
      [] f = "parse_class" -> parse_class(st, funcs, section, name, value)
      [] f = "parse_enum" -> parse_enum(st, section, name, value)
      [] f = "parse_string" -> parse_string(st, section, name, value)

\* Mutation of propagates: a NoDocstring counts as a parsing function
\* declining the value.
propagates_NotNoDocstring(e) == e.type \notin {None, "NoDocstring"}

\* Whether an exception of a parsing function leaves parse_object's loop:
\* the loop has no try statement, so every exception does.
propagates(e) == e.type # None

\* The loop of ObjectSection.parse_object from its i-th parsing function
\* on; every call is logged, with how it ended.  (r ranges over one value,
\* which is worked out once.)
RECURSIVE TryFuncs(_, _, _, _, _, _)
TryFuncs(st, funcs, i, section, name, obj) ==
    IF i > Len(funcs) THEN Raise(st, AssertionError(NotCaught))
    ELSE LET k == Len(st.calls) + 1
             st1 == [st EXCEPT !.calls =
                        Append(@, [sect |-> section, name |-> name,
                                   func |-> reversed(funcs)[i], result |-> "running"])]
             ended == {LET how == IF r.error.type # None THEN r.error.type
                                  ELSE IF r.result THEN "True" ELSE "False"
                           r1 == [r EXCEPT !.calls[k].result = how]
                       IN IF propagates(r.error) THEN r1
                          ELSE IF r.result THEN r1
                          ELSE TryFuncs([r1 EXCEPT !.error = NoError], funcs, i + 1,
                                        section, name, obj) :
                       r \in {CallFunc(reversed(funcs)[i], st1, funcs, section, name, obj)}}
         IN CHOOSE out \in ended : TRUE

\* ObjectSection.parse_object
parse_object(st, funcs, section, name, obj) ==
    TryFuncs(st, funcs, 1, section, name, obj)

\* The member loop of parse_class from its i-th name on.
parse_class_members(st, funcs, section, cls, names, i) ==
    IF i > Len(names) THEN Return(st, st.heap, TRUE)
    ELSE LET r == parse_object(st, funcs, section, names[i], class_dict(cls, names[i]))
         IN IF r.error.type = "NoDocstring"
            THEN IF reraise(names[i]) THEN r
                 ELSE parse_class_members([r EXCEPT !.error = NoError], funcs,
                                          section, cls, names, i + 1)
            ELSE IF r.error.type # None THEN r
            ELSE parse_class_members(r, funcs, section, cls, names, i + 1)

\* ------------------------------------------------------------ walk_subs
\* A running walk_subs generator: the chain of nested generators (each a
\* section and the number of its subs already taken) and the section it
\* last yielded, 0 before the first.
NewWalk(section) == [stack |-> <<[sect |-> section, i |-> 0]>>, last |-> 0]

\* Mutation of walk_resume: the generator does not descend into the section
\* it yielded.
walk_resume_Flat(g) == g.stack

\* Mutation of walk_advance: a generator whose list is exhausted ends the
\* whole walk.
walk_advance_Stop(heap, stack) ==
    IF stack = <<>> THEN [stack |-> <<>>, last |-> 0]
    ELSE LET top == stack[Len(stack)]
         IN IF top.i < Len(heap[top.sect].subs)
            THEN [stack |-> [stack EXCEPT ![Len(stack)].i = top.i + 1],
                  last |-> heap[top.sect].subs[top.i + 1]]
            ELSE [stack |-> <<>>, last |-> 0]

\* `yield from sub.walk_subs()`: a generator over the section just yielded
\* is entered before the loop goes on.
walk_resume(g) ==
    IF g.last = 0 THEN g.stack
    ELSE Append(g.stack, [sect |-> g.last, i |-> 0])

\* The loop `for sub in self.subs` of the innermost generator; a generator
\* whose list is exhausted returns to the one that delegated to it.  The
\* lists are read as they are now: what was appended meanwhile is seen.
RECURSIVE walk_advance(_, _)
walk_advance(heap, stack) ==
    IF stack = <<>> THEN [stack |-> <<>>, last |-> 0]
    ELSE LET top == stack[Len(stack)]
         IN IF top.i < Len(heap[top.sect].subs)
            THEN [stack |-> [stack EXCEPT ![Len(stack)].i = top.i + 1],
                  last |-> heap[top.sect].subs[top.i + 1]]
            ELSE walk_advance(heap, SubSeq(stack, 1, Len(stack) - 1))

\* next() of the generator: the generator after it, which has yielded
\* .last, or has stopped (.last = 0).
walk_next(heap, g) == walk_advance(heap, walk_resume(g))

\* list(g): what the generator yields until it stops.
RECURSIVE walk_list(_, _)
walk_list(heap, g) ==
    LET g1 == walk_next(heap, g)
    IN IF g1.last = 0 THEN <<>> ELSE <<g1.last>> \o walk_list(heap, g1)

\* The body of add_datasections's loop for one yielded sub.
add_datasections(heap, section, sub) ==
    IF heap[section].ds # 0
    THEN [heap EXCEPT ![sub].subs = Append(@, heap[section].ds)]
    ELSE heap

\* ----------------------------------------------------------- Section.dump
RECURSIVE Repeat(_, _)
Repeat(str, n) == IF n = 0 THEN "" ELSE str \o Repeat(str, n - 1)

\* Mutation of sub_titlelevel: the subsections get the section's own level.
sub_titlelevel_Same(titlelevel) == titlelevel

\* The titlelevel dump passes to the subsections.
sub_titlelevel(titlelevel) == titlelevel + 1

RECURSIVE dump(_, _, _)
RECURSIVE dump_subs(_, _, _, _)
dump(heap, s, titlelevel) ==
    <<Repeat("#", titlelevel), " ", heap[s].title, "\n", "\n">>
    \o strip_nl(content(heap, s)) \o <<"\n", "\n">>
    \o dump_subs(heap, heap[s].subs, 1, sub_titlelevel(titlelevel))

dump_subs(heap, subs, i, titlelevel) ==
    IF i > Len(subs) THEN <<>>
    ELSE dump(heap, subs[i], titlelevel) \o dump_subs(heap, subs, i + 1, titlelevel)

\* dump's assertions, over the section and its subsections.
RECURSIVE dump_asserts(_, _)
dump_asserts(heap, s) ==
    /\ heap[s].title # None
    /\ content(heap, s) # NoneSeq
    /\ \A i \in 1..Len(heap[s].subs) : dump_asserts(heap, heap[s].subs[i])

\* ------------------------------------------------- the command line
\* The modules the command line may import: the requested module, and the
\* modules below it when it is a package.
CliNames == {"mod", "mod.README", "mod.sub", "mod.util", "mod.sub.util"}

\* modname.split('.')
split_dots(modname) ==
    CASE modname = "mod" -> <<"mod">>
      [] modname = "mod.README" -> <<"mod", "README">>
      [] modname = "mod.sub" -> <<"mod", "sub">>
      [] modname = "mod.util" -> <<"mod", "util">>
      [] modname = "mod.sub.util" -> <<"mod", "sub", "util">>

\* A module of __all__ = all that is no package, and a package of some
\* .py files and packages, which has no __all__ and has imported the
\* packages of the set imported, or has __all__ = all.
Leaf(name, doc, all) == [PlainModule(doc, all) EXCEPT !.name = name]
Package(name, doc, hasall, all, imported, files, packages) ==
    [Module(doc, hasall, all,
            ({all[i] : i \in 1..Len(all)} \ files) \cup imported, TRUE, files)
        EXCEPT !.name = name, !.packages = packages]

\* What the requested module may be: a module, a package of .py files, or
\* a package of the file util.py and the package sub, which it imports or
\* lists in __all__.
Roots ==
    {Leaf(ModuleName, ModuleDoc, all) : all \in {<<"f">>, <<"x", "f">>}}
    \cup {Package(ModuleName, ModuleDoc, FALSE, <<>>, {}, files, {}) :
              files \in (SUBSET {"sub", "util"}) \cup {{"README"}}}
    \cup {Package(ModuleName, ModuleDoc, FALSE, <<>>, imported, {"util"}, {"sub"}) :
              imported \in SUBSET {"sub"}}
    \cup {Package(ModuleName, ModuleDoc, TRUE, <<"util", "f", "sub">>, {},
                  {"util"}, {"sub"})}

\* What mod.sub may be below each of them: the module of sub.py, or the
\* package of sub/__init__.py and sub/util.py.
Subs(root) ==
    IF "sub" \in root.packages
    THEN {Package("mod.sub", ModuleDoc, FALSE, <<>>, {}, {"util"}, {})}
    ELSE {Leaf("mod.sub", doc, <<"f">>) : doc \in ModuleDocs}

\* What importlib.import_module finds for each name that is importable.
ModuleTree(root, sub, doc) ==
    [name \in CliNames |->
        CASE name = "mod" -> root
          [] name = "mod.README" -> Leaf(name, ModuleDoc, <<"f">>)
          [] name = "mod.sub" -> sub
          [] name = "mod.util" -> Leaf(name, doc, <<"f">>)
          [] name = "mod.sub.util" -> Leaf(name, ModuleDoc, <<"f">>)]
Trees ==
    UNION {{ModuleTree(root, sub, doc) : sub \in Subs(root), doc \in ModuleDocs} :
           root \in Roots}

\* main() of cmdline.py.
\*   pc        : "off", "start", "asking" (in yesno), "writing" (at the
\*               head of the module loop), "parsing" (in parse_module),
\*               "exit"
\*   module_ok : whether no part of the dotted module name is empty
\*   quiet, yes, no_submodules: the --quiet, --yes and --no-submodules
\*               options
\*   tree      : the modules that can be imported
\*   outdir    : what is at the --outdir path: "absent", "dir" or "file"
\*   stale     : whether what was at that path when main() began is still there
\*   prompts   : how many times yesno has asked
\*   out       : what was printed, but for the question
\*   error     : how main() failed
\*   module_queue, modname, outfile, documented, undocumented: the locals
\*               of the module loop
\*   files     : the files opened for writing below outdir, in order; a
\*               file opened again is written over
\*   parsed    : the names parse_module was called with, in order
\*   returned  : the submodule lists parse_module returned, in order
CliState(pc, module_ok, quiet, yes, no_submodules, outdir, tree) ==
    [pc |-> pc, module_ok |-> module_ok, quiet |-> quiet, yes |-> yes,
     no_submodules |-> no_submodules, tree |-> tree,
     outdir |-> outdir, stale |-> outdir # "absent", prompts |-> 0,
     out |-> <<>>, error |-> None,
     module_queue |-> <<>>, modname |-> None, outfile |-> <<>>,
     documented |-> 0, undocumented |-> <<>>,
     files |-> <<>>, parsed |-> <<>>, returned |-> <<>>]

\* The cli variable while main() is not running.
NotRunning ==
    CliState("off", TRUE, FALSE, FALSE, FALSE, "absent",
             [name \in CliNames |-> Leaf(name, ModuleDoc, <<"f">>)])

\* The command lines, the modules and the states of the output path
\* main() starts with.
CliStarts ==
    {CliState("start", module_ok, quiet, yes, no_submodules, outdir, tree) :
        module_ok \in BOOLEAN, quiet \in BOOLEAN, yes \in BOOLEAN,
        no_submodules \in BOOLEAN, outdir \in {"absent", "dir", "file"},
        tree \in Trees}

\* What the user may type at a question.
Answers == {"y", "Y", "n", " N", "", "maybe"}

\* input(prompt).upper().strip()
upper_strip(answer) ==
    CASE answer \in {"y", "Y"} -> "Y"
      [] answer \in {"n", " N"} -> "N"
      [] answer = "" -> ""
      [] answer = "maybe" -> "MAYBE"

\* One turn of yesno's loop: True, False, or None to ask again.
yesno(answer, default) ==
    IF upper_strip(answer) = "Y" THEN "True"
    ELSE IF upper_strip(answer) = "N" THEN "False"
    ELSE IF upper_strip(answer) = "" THEN default
    ELSE None

\* print(...) unless --quiet was given.
say(c, line) == IF c.quiet THEN c ELSE [c EXCEPT !.out = Append(@, line)]

\* shutil.rmtree(outdir) or os.remove(outdir)
remove(c) == [c EXCEPT !.outdir = "absent", !.stale = FALSE]

\* main() from the end of the output path's handling to the module loop.
start_writing(c) ==
    [say(c, "Writing documentation...")
        EXCEPT !.pc = "writing", !.module_queue = <<ModuleName>>]

\* Mutation of popleft: the name queued last is taken.
popleft_Last(queue) ==
    [item |-> queue[Len(queue)], rest |-> SubSeq(queue, 1, Len(queue) - 1)]

\* module_queue.popleft()
popleft(queue) == [item |-> Head(queue), rest |-> Tail(queue)]

\* hasattr(module, '__path__')
its_a_package(m) == m.package

\* The path of a module's file below outdir.
outfile(m) ==
    LET parts == Tail(split_dots(m.name))
    IN IF m.name = ModuleName THEN <<"README.md">>
       ELSE IF its_a_package(m) THEN parts \o <<"README.md">>
       ELSE SubSeq(parts, 1, Len(parts) - 1) \o <<parts[Len(parts)] \o ".md">>

\* str(n) of a count of modules
str(n) == CASE n = 0 -> "0" [] n = 1 -> "1" [] n = 2 -> "2" [] n = 3 -> "3" [] n = 4 -> "4"

\* Python's ordering of the module names.
CliNameOrder == <<"mod", "mod.README", "mod.sub", "mod.sub.util", "mod.util">>

\* table(strings): the sorted names in one line, which they fit in.
table(strings) ==
    LET Listed(name) == \E i \in 1..Len(strings) : strings[i] = name
    IN "  " \o JoinStr(SelectSeq(CliNameOrder, Listed), " ")

\* The lines main() prints after the module loop.
print_summary(c) ==
    LET counted == say(say(c, ""),
                       IF c.documented = 1 THEN "1 module was documented."
                       ELSE str(c.documented) \o " modules were documented.")
        listed == IF Len(c.undocumented) = 1
                  THEN say(counted, "This submodule was NOT documented:")
                  ELSE say(counted, "These submodules were NOT documented:")
    IN IF c.quiet \/ c.undocumented = <<>> THEN counted
       ELSE say(listed, table(c.undocumented))

\* ------------------------------------------------------------------- state
VARIABLES
    registry,   \* _parsingfuncs
    hooks,      \* _modulehooks
    heap,       \* the Section objects created so far
    pc,         \* "idle", or where parse_module is: "members", "hooks",
                \* "done" (it returned), "failed" (it raised)
    module,     \* the module being documented: [name, doc, all]
    idx,        \* parse_module's position in all_list
    mainsection,\* the root section of the current call
    calls,      \* the calls of parsing functions made by the current call
    error,      \* the exception parse_module (or dump) raised
    hookidx,    \* the module hook that is running
    walk,       \* its walk_subs generator
    docs,       \* what was dumped after each call: [titlelevel, text]
    submodules, \* parse_module's list of submodule names
    hookcalls,  \* the module hooks the current call has called: [hook, section]
    walked,     \* what user code got from walk_subs on the returned tree
    cli         \* the command-line interface: its arguments, the output
                \* directory and where main() is

vars == <<registry, hooks, heap, pc, module, idx, mainsection, calls, error,
          hookidx, walk, docs, submodules, hookcalls, walked, cli>>

Init ==
    /\ registry = DefaultFuncs
    /\ hooks = DefaultHooks
    /\ heap = <<>>
    /\ pc = "idle"
    /\ module = PlainModule(NoneSeq, <<>>)
    /\ idx = 0
    /\ mainsection = 0
    /\ calls = <<>>
    /\ error = NoError
    /\ hookidx = 0
    /\ walk = NewWalk(0)
    /\ docs = <<>>
    /\ submodules = <<>>
    /\ hookcalls = <<>>
    /\ walked = <<>>
    /\ cli = NotRunning

\* Mutation of parsingfunc: the function is put in front of the others.
parsingfunc_First(funcs, f) == [funcs |-> <<f>> \o funcs, result |-> f]

\* parsingfunc(f): the list afterwards and what the call returns.
parsingfunc(funcs, f) == [funcs |-> Append(funcs, f), result |-> f]

\* User code registers a parsing function, before anything is parsed; it
\* registers at most `most` of them.
Register(f, most) ==
    /\ pc = "idle"
    /\ docs = <<>>
    /\ Len(registry) < Len(DefaultFuncs) + most
    /\ registry' = parsingfunc(registry, f).funcs
    /\ UNCHANGED <<hooks, heap, pc, module, idx, mainsection, calls, error,
                   hookidx, walk, docs, submodules, hookcalls, walked, cli>>

\* _import_submodules: the public .py files of the package's directory are
\* imported, which makes them attributes of the package.  The result is
\* what dir() finds afterwards.
_import_submodules(m) == m.dir \cup {name \in m.files : ~startswith_underscore(name)}

\* issubclass(value, Exception), for a class that names its bases.
is_exception(value) ==
    \E i \in 1..Len(value.bases) : value.bases[i] = ExceptionBase

\* Mutation of _module_sorting_key: the names are sorted by name alone.
_module_sorting_key_ByName(name) == <<1, NameRank(name)>>

\* _module_sorting_key
_module_sorting_key(name) ==
    LET value == ModuleAttr(name)
    IN IF value.kind \in {"class", "enum"}
       THEN IF is_exception(value) THEN <<3, NameRank(name)>>
            ELSE <<1, NameRank(name)>>
       ELSE IF value.kind = "func" THEN <<2, NameRank(name)>>
       ELSE <<4, NameRank(name)>>

\* parse_module's all_list: __all__, or the public names of dir(), which
\* is sorted by name, sorted again by _module_sorting_key.
all_list(m) ==
    IF m.hasall THEN m.all
    ELSE LET found == IF its_a_package(m) THEN _import_submodules(m) ELSE m.dir
             Found(name) == name \in found
             Public(name) == ~startswith_underscore(name)
             Before(a, b) == KeyLess(_module_sorting_key(a), _module_sorting_key(b))
         IN SortSeq(SelectSeq(SelectSeq(NameOrder, Found), Public), Before)

\* Mutation of imports: no name is importable as a submodule.
imports_Never(m, name) == FALSE

\* Whether importlib.import_module(modulename + '.' + name) succeeds.
imports(m, name) == name \in m.files \cup m.packages

\* modulehook(func)
modulehook(funcs, func) == Append(funcs, func)

\* User code registers a module hook, before anything is parsed.
RegisterHook(func) ==
    /\ pc = "idle"
    /\ docs = <<>>
    /\ Len(hooks) < Len(DefaultHooks) + MaxHooks
    /\ hooks' = modulehook(hooks, func)
    /\ UNCHANGED <<registry, heap, pc, module, idx, mainsection, calls, error,
                   hookidx, walk, docs, submodules, hookcalls, walked, cli>>

\* The title of the root section.
module_title(modulename, summary) ==
    IF summary # <<>> THEN modulename \o " - " \o Concat(_clean_summary(summary))
    ELSE modulename

\* Mutation of new_mainsection: the root section of a module is kept from
\* one call to the next, with the subs it has.
new_mainsection_Kept(sections, modulename, value, title, description) ==
    LET old == {s \in 1..Len(sections) :
                  sections[s].location = None /\ sections[s].name = modulename}
    IN IF old = {} THEN ObjectSection(None, modulename, value, title, description)
       ELSE sections[CHOOSE s \in old : \A t \in old : t <= s]

\* The root section parse_module creates, a new object in every call.
new_mainsection(sections, modulename, value, title, description) ==
    ObjectSection(None, modulename, value, title, description)

\* parse_module(m.name) up to its member loop.
StartParse(m) ==
    /\ pc = "idle"
    /\ module' = m
    /\ calls' = <<>>
    /\ idx' = 1
    /\ IF m.doc = NoneSeq
       THEN /\ pc' = "failed"
            /\ error' = NoDocstring(<<m.name>>)
            /\ UNCHANGED <<heap, mainsection>>
       ELSE \E doc \in {cleandoc(m.doc)} :
               \E parts \in {partition(doc, "\n")} :
               \E title \in {module_title(m.name, parts[1])} :
                   /\ heap' = Append(heap,
                                     new_mainsection(heap, m.name, PyModule(m.doc),
                                                     title, parts[3]))
                   /\ mainsection' = Len(heap) + 1
                   /\ pc' = "members"
                   /\ error' = NoError
    /\ submodules' = <<>>
    /\ hookcalls' = <<>>
    /\ walked' = <<>>
    /\ UNCHANGED <<registry, hooks, hookidx, walk, docs>>

\* User code calls parse_module.  A later call documents the same,
\* unmodified module again.
ParseModule(m) ==
    /\ Len(docs) < MaxRuns
    /\ docs # <<>> => m = module
    /\ StartParse(m)
    /\ UNCHANGED cli

\* One turn of parse_module's member loop: the name of a submodule goes to
\* the submodules list, any other member is dispatched.
ParseMember ==
    /\ pc = "members"
    /\ idx <= Len(all_list(module))
    /\ \E name \in {all_list(module)[idx]} :
           IF its_a_package(module) /\ imports(module, name)
           THEN /\ submodules' = Append(submodules, module.name \o "." \o name)
                /\ UNCHANGED <<heap, calls, error, pc>>
           ELSE \E r \in {parse_object([heap |-> heap, calls |-> calls,
                                        error |-> NoError, result |-> FALSE],
                                       registry, mainsection, name, ModuleAttr(name))} :
                    /\ heap' = r.heap
                    /\ calls' = r.calls
                    /\ error' = r.error
                    /\ pc' = IF r.error.type # None THEN "failed" ELSE "members"
                    /\ UNCHANGED submodules
    /\ idx' = idx + 1
    /\ UNCHANGED <<registry, hooks, module, mainsection, hookidx, walk, docs,
                   hookcalls, walked, cli>>

\* Calling a module hook on the root section.
call_hook(called, hook, section) ==
    Append(called, [hook |-> hook, section |-> section])

\* The member loop is over: the first module hook is called.
RunHooks ==
    /\ pc = "members"
    /\ idx > Len(all_list(module))
    /\ pc' = IF hooks = <<>> THEN "done" ELSE "hooks"
    /\ hookidx' = 1
    /\ walk' = NewWalk(mainsection)
    /\ hookcalls' = IF hooks = <<>> THEN hookcalls
                    ELSE call_hook(hookcalls, hooks[1], mainsection)
    /\ UNCHANGED <<registry, hooks, heap, module, idx, mainsection, calls, error,
                   docs, submodules, walked, cli>>

\* The running module hook goes on.  add_datasections takes the next
\* section from walk_subs and handles it, or returns when the generator
\* stops; entering one generator more than the interpreter allows raises
\* RecursionError.  A hook of user code returns.  When a hook returns the
\* next one is called, and parse_module returns after the last.
HookStep ==
    /\ pc = "hooks"
    /\ LET g == walk_next(heap, walk)
           walking == hooks[hookidx] = "add_datasections"
       IN IF walking /\ Len(walk_resume(walk)) > RecursionLimit
          THEN /\ pc' = "failed"
               /\ error' = RecursionError
               /\ UNCHANGED <<heap, walk, hookidx, hookcalls>>
          ELSE IF walking /\ g.last # 0
          THEN /\ heap' = add_datasections(heap, mainsection, g.last)
               /\ walk' = g
               /\ UNCHANGED <<pc, error, hookidx, hookcalls>>
          ELSE /\ pc' = IF hookidx < Len(hooks) THEN "hooks" ELSE "done"
               /\ hookidx' = hookidx + 1
               /\ walk' = NewWalk(mainsection)
               /\ hookcalls' = IF hookidx < Len(hooks)
                               THEN call_hook(hookcalls, hooks[hookidx + 1], mainsection)
                               ELSE hookcalls
               /\ UNCHANGED <<heap, error>>
    /\ UNCHANGED <<registry, hooks, module, idx, mainsection, calls, docs,
                   submodules, walked, cli>>

\* mainsection.dump(stream, titlelevel) on the tree parse_module returned.
Dump(titlelevel) ==
    /\ pc = "done"
    /\ IF dump_asserts(heap, mainsection)
       THEN /\ docs' = Append(docs, [titlelevel |-> titlelevel,
                                     text |-> dump(heap, mainsection, titlelevel)])
            /\ pc' = "idle"
            /\ error' = NoError
       ELSE /\ pc' = "failed"
            /\ error' = AssertionError(NotSet)
            /\ UNCHANGED docs
    /\ UNCHANGED <<registry, hooks, heap, module, idx, mainsection, calls,
                   hookidx, walk, submodules, hookcalls, walked, cli>>

\* User code calls list(mainsection.walk_subs()) on the tree parse_module
\* returned.
Walk ==
    /\ pc = "done"
    /\ Len(walked) < MaxWalks
    /\ walked' = Append(walked, walk_list(heap, NewWalk(mainsection)))
    /\ UNCHANGED <<registry, hooks, heap, pc, module, idx, mainsection, calls,
                   error, hookidx, walk, docs, submodules, hookcalls, cli>>

\* What the command line leaves alone.
core == <<registry, hooks, heap, pc, module, idx, mainsection, calls, error,
          hookidx, walk, docs, submodules, hookcalls, walked>>

\* The command is run: main() begins.
CliRun(start) ==
    /\ cli.pc = "off"
    /\ cli' = start
    /\ UNCHANGED core

\* main() up to the question about the output path, or up to the module
\* loop when nothing is asked: a path that exists is left alone when --yes
\* was given.
CliMain ==
    /\ cli.pc = "start"
    /\ cli' = IF ~cli.module_ok
              THEN [cli EXCEPT !.pc = "exit", !.error = "invalid module name"]
              ELSE IF cli.outdir = "absent" THEN start_writing(cli)
              ELSE IF ~cli.yes THEN [cli EXCEPT !.pc = "asking"]
              ELSE start_writing(cli)
    /\ UNCHANGED core

\* The user answers "'<outdir>' exists. Remove it?".
CliAnswer(answer) ==
    /\ cli.pc = "asking"
    /\ cli.prompts < MaxPrompts
    /\ LET asked == [cli EXCEPT !.prompts = @ + 1]
           result == yesno(answer, "False")
       IN cli' = IF result = None THEN asked
                 ELSE IF result = "True" THEN start_writing(remove(asked))
                 ELSE start_writing(asked)
    /\ UNCHANGED core

\* One turn of the module loop, up to the first lines of parse_module:
\* the next name is taken from the queue, the module is imported, the path
\* of its file is worked out and printed, and parse_module is called.
CliPop ==
    /\ cli.pc = "writing"
    /\ cli.module_queue # <<>>
    /\ \E q \in {popleft(cli.module_queue)} :
           \E m \in {cli.tree[q.item]} :
               /\ cli' = [say(cli, "  " \o q.item \o " -> " \o JoinStr(outfile(m), "/"))
                             EXCEPT !.pc = "parsing", !.module_queue = q.rest,
                                    !.modname = q.item, !.outfile = outfile(m),
                                    !.parsed = Append(@, q.item)]
               /\ StartParse(m)

\* parse_module raised: main() ends with the exception.
CliRaise ==
    /\ cli.pc = "parsing"
    /\ pc = "failed"
    /\ cli' = [cli EXCEPT !.pc = "exit", !.error = error.type]
    /\ UNCHANGED core

\* parse_module returned: the rest of the turn of the module loop.  The
\* submodules are queued, or noted as not documented; mkdir_open makes
\* the directories of the file, which fails when outdir is a file, and
\* opens the file; the tree is dumped into it.  A file whose dump fails
\* is left as it was opened.
CliDump ==
    /\ cli.pc = "parsing"
    /\ pc = "done"
    /\ LET extended == IF ~cli.no_submodules
                       THEN [cli EXCEPT !.module_queue = @ \o submodules,
                                        !.returned = Append(@, submodules)]
                       ELSE [cli EXCEPT !.undocumented = @ \o submodules,
                                        !.returned = Append(@, submodules)]
           opened == [extended EXCEPT !.outdir = "dir"]
           text == dump(heap, mainsection, 1)
       IN IF cli.outdir = "file"
          THEN /\ cli' = [extended EXCEPT !.pc = "exit", !.error = "FileExistsError"]
               /\ UNCHANGED <<pc, error>>
          ELSE IF ~dump_asserts(heap, mainsection)
          THEN /\ cli' = [opened EXCEPT !.pc = "exit", !.error = "AssertionError",
                                        !.files = Append(@, [path |-> cli.outfile,
                                                             text |-> <<>>])]
               /\ pc' = "failed"
               /\ error' = AssertionError(NotSet)
          ELSE /\ cli' = [opened EXCEPT !.pc = "writing", !.documented = @ + 1,
                                        !.files = Append(@, [path |-> cli.outfile,
                                                             text |-> text])]
               /\ pc' = "idle"
               /\ error' = NoError
    /\ UNCHANGED <<registry, hooks, heap, module, idx, mainsection, calls,
                   hookidx, walk, docs, submodules, hookcalls, walked>>

\* The queue is empty: main() prints what it did and returns.
CliSummary ==
    /\ cli.pc = "writing"
    /\ cli.module_queue = <<>>
    /\ cli' = [print_summary(cli) EXCEPT !.pc = "exit"]
    /\ UNCHANGED core

\* The modules parse_module may be called on: any module at first, the
\* same one afterwards.
Documentable ==
    IF pc # "idle" THEN {}
    ELSE IF docs # <<>> THEN {module}
    ELSE {PlainModule(doc, all) : doc \in ModuleDocs, all \in AllLists}

Next ==
    \/ \E f \in CustomFuncs : Register(f, MaxRegister)
    \/ \E m \in Documentable : ParseModule(m)
    \/ ParseMember
    \/ RunHooks
    \/ HookStep
    \/ \E titlelevel \in 1..MaxTitleLevel : Dump(titlelevel)

Spec == Init /\ [][Next]_vars

\* One of the modules of S at first, the same one afterwards.
Again(S) ==
    IF pc # "idle" THEN {}
    ELSE IF docs # <<>> THEN {module}
    ELSE S

ShortModules == {PlainModule(doc, all) : doc \in ModuleDocs, all \in ShortLists}

\* User code that walks the trees parse_module returns.
NextWalk ==
    \/ \E m \in Again(ShortModules) : ParseModule(m)
    \/ ParseMember
    \/ RunHooks
    \/ HookStep
    \/ Walk
    \/ \E titlelevel \in 1..MaxTitleLevel : Dump(titlelevel)

SpecWalk == Init /\ [][NextWalk]_vars

\* User code that registers module hooks.
NextHooks ==
    \/ \E func \in CustomHooks : RegisterHook(func)
    \/ \E m \in Again(ShortModules) : ParseModule(m)
    \/ ParseMember
    \/ RunHooks
    \/ HookStep
    \/ \E titlelevel \in 1..MaxTitleLevel : Dump(titlelevel)

SpecHooks == Init /\ [][NextHooks]_vars

\* Modules without __all__ and packages, documented with the defaults.
NextModules ==
    \/ \E m \in Again(SortedModules \cup ListedModules) : ParseModule(m)
    \/ ParseMember
    \/ RunHooks
    \/ HookStep
    \/ \E titlelevel \in 1..MaxTitleLevel : Dump(titlelevel)

SpecModules == Init /\ [][NextModules]_vars

\* Runs of the command line.
NextCli ==
    \/ \E start \in CliStarts : CliRun(start)
    \/ CliMain
    \/ \E answer \in Answers : CliAnswer(answer)
    \/ CliPop
    \/ ParseMember
    \/ RunHooks
    \/ HookStep
    \/ CliRaise
    \/ CliDump
    \/ CliSummary

SpecCli == Init /\ [][NextCli]_vars

\* The same, where main() goes on as long as it has a step to take: it
\* is one thread that waits for nothing but the answers of the user.
FairCli ==
    SpecCli /\ WF_vars(CliMain \/ CliPop \/ ParseMember \/ RunHooks \/ HookStep
                           \/ CliRaise \/ CliDump \/ CliSummary)

\* User code that registers a parsing function more than once.
NextRegistry ==
    \/ \E f \in CustomFuncs : Register(f, MaxCopies)
    \/ \E m \in Again(ShortModules) : ParseModule(m)
    \/ ParseMember
    \/ RunHooks
    \/ HookStep
    \/ \E titlelevel \in 1..MaxTitleLevel : Dump(titlelevel)

SpecRegistry == Init /\ [][NextRegistry]_vars

\* Modules with one-line docstrings, documented with the defaults.
NextSummary ==
    \/ \E m \in Again(SummaryModules) : ParseModule(m)
    \/ ParseMember
    \/ RunHooks
    \/ HookStep
    \/ \E titlelevel \in 1..MaxTitleLevel : Dump(titlelevel)

SpecSummary == Init /\ [][NextSummary]_vars

\* ------------------------------------------------------------- the claims
\* The calls of parsing functions made for one dispatch, in order.
CallsFor(section, name) ==
    LET Mine(c) == c.sect = section /\ c.name = name
    IN SelectSeq(calls, Mine)

\* The sections below s: the least set closed under subs.
RECURSIVE Closure(_, _, _)
Closure(sections, S, n) ==
    LET T == S \cup UNION {{sections[p].subs[i] : i \in 1..Len(sections[p].subs)} :
                           p \in S}
    IN IF n = 0 \/ T = S THEN S ELSE Closure(sections, T, n - 1)

Children(sections, s) == {sections[s].subs[i] : i \in 1..Len(sections[s].subs)}
Descendants(sections, s) == Closure(sections, Children(sections, s), Len(sections))
Tree(sections, s) == {s} \cup Descendants(sections, s)

\* The pairs a section's data section holds.
DataOf(s) == IF heap[s].ds = 0 THEN <<>> ELSE heap[heap[s].ds].data
DataNames(s) == {DataOf(s)[i][1] : i \in 1..Len(DataOf(s))}

\* The sections made for the member `name` of the value section s documents.
SectionsFor(s, name) ==
    {t \in 1..Len(heap) :
        /\ heap[t].cls = "ObjectSection"
        /\ heap[t].location = fullname(heap, s)
        /\ heap[t].name = name
        /\ t > s}

\* C1: a dispatch calls the registered parsing functions newest first and
\* stops at the first truthy result, and a parsing function registered
\* after the defaults that accepts a value replaces their output: the
\* parent gets its section alone and no data entry.
C1_DispatchNewestFirst ==
    \A k \in 1..Len(calls) :
        LET c == calls[k]
            mine == CallsFor(c.sect, c.name)
        IN /\ Len(mine) <= Len(registry)
           /\ \A i \in 1..Len(mine) : mine[i].func = registry[Len(registry) + 1 - i]
           /\ \A i \in 1..(Len(mine) - 1) : mine[i].result = "False"
           /\ (c.func \in CustomFuncs /\ c.result = "True") =>
                 /\ \A d \in 1..Len(mine) : mine[d].func \notin
                        {DefaultFuncs[j] : j \in 1..Len(DefaultFuncs)}
                 /\ c.name \notin DataNames(c.sect)
                 /\ Cardinality(SectionsFor(c.sect, c.name)) = 1
                 /\ \A t \in SectionsFor(c.sect, c.name) :
                        /\ t \in Children(heap, c.sect)
                        /\ heap[t].title = "The '" \o c.name \o "' string"

\* A parsing function registered after the defaults accepted a value,
\* after a default one had accepted another.
C1_Witness ==
    /\ \E k \in 1..Len(calls) :
          calls[k].func = "parse_string" /\ calls[k].result = "True"
    /\ \E k \in 1..Len(calls) :
          calls[k].func = "parse_function" /\ calls[k].result = "True"

\* Whether the sections of the tree under root form a tree: no section in
\* two subs lists or twice in one, none below itself.
ProperTree(sections, root) ==
    LET nodes == Tree(sections, root)
        Places(t) == {<<p, i>> \in nodes \X (1..Len(sections)) :
                        i <= Len(sections[p].subs) /\ sections[p].subs[i] = t}
    IN \A t \in nodes :
          /\ Cardinality(Places(t)) <= 1
          /\ t \notin Descendants(sections, t)

\* C2: the tree parse_module returns is a proper tree.
C2_ReturnedTreeProper == pc = "done" => ProperTree(heap, mainsection)

\* parse_module returned a tree with a section two levels below the root.
C2_Witness ==
    /\ pc = "done"
    /\ \E s \in Children(heap, mainsection) : heap[s].subs # <<>>
    /\ Len(heap[mainsection].subs) >= 2

\* C3: when add_datasections has run, every subsection with a data section
\* of its own has that data section as the last of its subs.
C3_DataSectionLast ==
    pc = "done" =>
        \A s \in Descendants(heap, mainsection) :
            heap[s].ds # 0 =>
                /\ heap[s].subs # <<>>
                /\ heap[s].subs[Len(heap[s].subs)] = heap[s].ds

\* C4: parse_module terminates: no module hook exhausts the interpreter's
\* stack, and the walk of a hook never nests deeper than the tree has
\* sections.
C4_ParseModuleTerminates ==
    /\ error.type # "RecursionError"
    /\ pc = "hooks" => Len(walk.stack) <= Len(heap)

\* C5: a parsing function that raises NoDocstring ends the dispatch: no
\* parsing function is called after it for that value, and the value is
\* not recorded as data; at module level parse_module fails with it.
C5_NoDocstringPropagates ==
    \A k \in 1..Len(calls) :
        calls[k].result = "NoDocstring" =>
            LET c == calls[k]
                mine == CallsFor(c.sect, c.name)
            IN /\ mine[Len(mine)].result = "NoDocstring"
               /\ \A i \in 1..Len(mine) : mine[i].func # "parse_data"
               /\ c.name \notin DataNames(c.sect)
               /\ c.sect = mainsection =>
                     /\ pc = "failed"
                     /\ error.type = "NoDocstring"

\* An undocumented property of a class made parse_module fail.
C5_Witness ==
    /\ pc = "failed"
    /\ error = NoDocstring(<<ModuleName, "P", "q">>)
    /\ \E k \in 1..Len(calls) :
          /\ calls[k].func = "parse_property"
          /\ calls[k].result = "NoDocstring"

\* The undocumented functions of a class's own dictionary.
Undocumented(cls) ==
    {cls.dict[i][1] : i \in {j \in 1..Len(cls.dict) :
                               /\ cls.dict[j][2].kind = "func"
                               /\ cls.dict[j][2].doc = NoneSeq}}

\* The members of a class's own dictionary that have no docstring where
\* one is asked for.
Bad(cls) ==
    {cls.dict[i][1] : i \in {j \in 1..Len(cls.dict) :
                               /\ cls.dict[j][2].kind \in {"func", "prop", "class", "enum"}
                               /\ cls.dict[j][2].doc = NoneSeq}}

DocumentedClass(v) == v.kind = "class" /\ v.doc # NoneSeq

\* The members parse_module has dispatched.
Dispatched == 1..(IF idx - 1 < Len(module.all) THEN idx - 1 ELSE Len(module.all))

\* C6: a documented class with an undocumented method other than __init__
\* makes parse_module fail with a NoDocstring naming module.Class.method;
\* a documented class whose only undocumented member is __init__ raises
\* nothing, its other members are walked and it gets no __init__ section.
C6_UndocumentedMethod ==
    \A i \in Dispatched :
        LET classname == module.all[i]
            cls == ModuleAttr(classname)
        IN /\ (DocumentedClass(cls) /\ Undocumented(cls) \ {"__init__"} # {}) =>
                 /\ pc = "failed"
                 /\ i = idx - 1
                 /\ error.type = "NoDocstring"
                 /\ \E method \in Undocumented(cls) \ {"__init__"} :
                       NoDocstring_str(error) =
                           "'" \o ModuleName \o "." \o classname \o "." \o method
                           \o "' doesn't have a docstring"
           /\ (DocumentedClass(cls) /\ Bad(cls) = {"__init__"}) =>
                 /\ ~(i = idx - 1 /\ pc = "failed" /\ error.type = "NoDocstring")
                 /\ \E s \in Children(heap, mainsection) :
                       /\ heap[s].name = classname
                       /\ \A t \in Children(heap, s) : heap[t].name # "__init__"
                       /\ \A n \in {cls.dict[j][1] : j \in 1..Len(cls.dict)} \ {"__init__"} :
                             \/ n \in DataNames(s)
                             \/ \E t \in Children(heap, s) : heap[t].name = n

\* A class with an undocumented __init__ was documented, then a class with
\* an undocumented method made parse_module fail.
C6_Witness ==
    /\ pc = "failed"
    /\ error = NoDocstring(<<ModuleName, "D", "n">>)
    /\ \E i \in Dispatched : module.all[i] = "C"

\* C7: no dispatch reaches parse_object's assertion: every dispatch ends
\* with a parsing function that accepted the value or raised NoDocstring.
C7_NoUncaughtValue ==
    /\ error # AssertionError(NotCaught)
    /\ \A k \in 1..Len(calls) :
          LET mine == CallsFor(calls[k].sect, calls[k].name)
          IN mine[Len(mine)].result \in {"True", "NoDocstring"}

\* Every parsing function but parse_data declined a value.
C7_Witness ==
    \E k \in 1..Len(calls) :
        /\ calls[k].func = "parse_data"
        /\ calls[k].result = "True"
        /\ Len(CallsFor(calls[k].sect, calls[k].name)) = Len(registry)
        /\ Len(registry) > Len(DefaultFuncs)

\* The value behind the member `name` of what section s documents.
ValueAt(s, name) ==
    IF s = mainsection THEN ModuleAttr(name)
    ELSE class_dict(ModuleAttr(heap[s].name), name)

\* The <<name, repr>> pairs parse_data was given for section s, in order.
Recorded(s) ==
    LET Mine(c) == c.sect = s /\ c.func = "parse_data" /\ c.result = "True"
        mine == SelectSeq(calls, Mine)
    IN [i \in 1..Len(mine) |-> <<mine[i].name, ValueAt(s, mine[i].name).repr>>]

\* The sections of the current call of parse_module.
Current == {s \in 1..Len(heap) : mainsection # 0 /\ s >= mainsection}

\* Each section has at most one data section, its own, which holds the
\* pairs recorded for it in insertion order.
OneDataSectionPerParent ==
    /\ \A s \in Current :
          /\ heap[s].cls # "DataSection" => DataOf(s) = Recorded(s)
          /\ heap[s].ds # 0 => heap[heap[s].ds].cls = "DataSection"
    /\ \A s, t \in 1..Len(heap) :
          (heap[s].ds # 0 /\ heap[s].ds = heap[t].ds) => s = t
    /\ Cardinality({d \in 1..Len(heap) : heap[d].cls = "DataSection"})
          = Cardinality({s \in 1..Len(heap) : heap[s].ds # 0})

\* A fenced block of the given lines: a fence, each line on a line of its
\* own, a fence.
Fenced(lines) ==
    <<Fence>>
    \o [i \in 1..(2 * Len(lines)) |-> IF i % 2 = 1 THEN "\n" ELSE lines[i \div 2]]
    \o <<"\n", Fence>>

\* One line per pair of a data section: `name = repr`, and the same with
\* the repr between backquotes.
PlainLines(d) ==
    [i \in 1..Len(heap[d].data) |-> heap[d].data[i][1] \o " = " \o heap[d].data[i][2]]
QuotedLines(d) ==
    [i \in 1..Len(heap[d].data) |->
        heap[d].data[i][1] \o " = " \o Backtick \o heap[d].data[i][2] \o Backtick]

\* C8 as stated: one data section per parent, its content one line
\* `name = repr` per recorded pair, in insertion order, between fences.
C8_DataLinesPlain ==
    /\ OneDataSectionPerParent
    /\ \A d \in 1..Len(heap) :
          heap[d].cls = "DataSection" => content(heap, d) = Fenced(PlainLines(d))

\* C8 as amended: the repr of each line is between backquotes.
C8_DataLinesQuoted ==
    /\ OneDataSectionPerParent
    /\ \A d \in 1..Len(heap) :
          heap[d].cls = "DataSection" => content(heap, d) = Fenced(QuotedLines(d))

\* The root and a class both have a data section with two pairs.
C8_Witness ==
    /\ mainsection # 0
    /\ Len(DataOf(mainsection)) = 2
    /\ \E s \in Children(heap, mainsection) : Len(DataOf(s)) = 2

\* C9: two calls of parse_module on the same module, dumped at the same
\* titlelevel, give the same text.
C9_SecondCallSameText ==
    \A i, j \in 1..Len(docs) :
        docs[i].titlelevel = docs[j].titlelevel => docs[i].text = docs[j].text

\* A module with a class and a function was documented twice.
C9_Witness ==
    /\ Len(docs) = 2
    /\ docs[1].titlelevel = docs[2].titlelevel
    /\ Len(heap[mainsection].subs) >= 2
    /\ \E s \in Children(heap, mainsection) : heap[s].subs # <<>>

\* The sections of the tree under s in depth-first pre-order.
RECURSIVE PreOrder(_, _)
RECURSIVE PreOrderAll(_, _, _)
PreOrder(sections, s) == <<s>> \o PreOrderAll(sections, sections[s].subs, 1)
PreOrderAll(sections, subs, i) ==
    IF i > Len(subs) THEN <<>>
    ELSE PreOrder(sections, subs[i]) \o PreOrderAll(sections, subs, i + 1)

\* How far below `top` the section s of its tree is.
RECURSIVE DepthBelow(_, _, _)
DepthBelow(sections, top, s) ==
    IF s = top THEN 0
    ELSE 1 + DepthBelow(sections, top,
                        CHOOSE p \in Tree(sections, top) : s \in Children(sections, p))

\* Text without the newlines at its ends.
Stripped(text) ==
    LET inside == {i \in 1..Len(text) : text[i] # "\n"}
    IN IF inside = {} THEN <<>>
       ELSE SubSeq(text, CHOOSE i \in inside : \A j \in inside : i <= j,
                   CHOOSE i \in inside : \A j \in inside : j <= i)

\* What dump is to write for one section at a heading level.
Block(sections, s, level) ==
    <<Concat([i \in 1..level |-> "#"]), " ", sections[s].title, "\n", "\n">>
    \o Stripped(content(sections, s)) \o <<"\n", "\n">>

RECURSIVE Blocks(_, _, _, _)
Blocks(sections, top, order, titlelevel) ==
    IF order = <<>> THEN <<>>
    ELSE Block(sections, Head(order),
               titlelevel + DepthBelow(sections, top, Head(order)))
         \o Blocks(sections, top, Tail(order), titlelevel)

\* C10: dump writes the section and its descendants in depth-first
\* pre-order, each as a heading of titlelevel + depth '#' characters and
\* the title, a blank line, the stripped content and a blank line.
C10_DumpHeadingDepth ==
    (pc = "idle" /\ docs # <<>>) =>
        docs[Len(docs)].text =
            Blocks(heap, mainsection, PreOrder(heap, mainsection),
                   docs[Len(docs)].titlelevel)

\* A tree three levels deep, whose root content starts with a newline,
\* was dumped at titlelevel 2.
C10_Witness ==
    /\ pc = "idle"
    /\ docs # <<>>
    /\ docs[Len(docs)].titlelevel = 2
    /\ Head(heap[mainsection].content) = "\n"
    /\ \E s \in Children(heap, mainsection) : heap[s].subs # <<>>

\* C11: with the default parsing functions and hooks alone, every section
\* of a tree parse_module returned, and every data section made along with
\* it, has a title and a content, and dump's assertion never fails.
C11_TitleAndContentSet ==
    (registry = DefaultFuncs /\ hooks = DefaultHooks) =>
        /\ error # AssertionError(NotSet)
        /\ pc = "done" =>
              /\ dump_asserts(heap, mainsection)
              /\ \A s \in Tree(heap, mainsection) \cup Current :
                    /\ heap[s].title # None
                    /\ content(heap, s) # NoneSeq

\* A tree with a class (with members and data of its own), a function and
\* an enum section, made by the default parsing functions, was dumped.
C11_Witness ==
    /\ pc = "idle"
    /\ docs # <<>>
    /\ registry = DefaultFuncs
    /\ \E s \in Children(heap, mainsection) :
          heap[s].subs # <<>> /\ heap[s].ds # 0
    /\ \E s \in Children(heap, mainsection) : heap[s].value = "enum"
    /\ \E s \in Children(heap, mainsection) : heap[s].title = "f()"

\* C12: on a returned tree, which is finite, acyclic and not modified
\* meanwhile, walk_subs yields every descendant of the section once, in
\* depth-first pre-order, never the section itself, and a second call
\* yields the same sequence from the start.
C12_WalkPreOrder ==
    \A k \in 1..Len(walked) :
        /\ walked[k] = Tail(PreOrder(heap, mainsection))
        /\ {walked[k][i] : i \in 1..Len(walked[k])} = Descendants(heap, mainsection)
        /\ Len(walked[k]) = Cardinality(Descendants(heap, mainsection))
        /\ \A i \in 1..Len(walked[k]) : walked[k][i] # mainsection
        /\ walked[k] = walked[1]

\* A tree with two sections below the root's first child and another child
\* after it was walked twice.
C12_Witness ==
    /\ Len(walked) = 2
    /\ Len(heap[mainsection].subs) = 2
    /\ Len(heap[heap[mainsection].subs[1]].subs) = 2

\* The last dispatch of the current call raised.
DispatchRaised ==
    /\ pc = "failed"
    /\ calls # <<>>
    /\ calls[Len(calls)].result \notin {"True", "False"}

\* C13: the module hooks are called in registration order, each once and
\* with the root section, only after every member has been dispatched;
\* none is called when a dispatch raised, and all of them have been called
\* when the call of parse_module is over otherwise.
C13_HooksOncePerCall ==
    LET Registered == [i \in 1..Len(hooks) |->
                          [hook |-> hooks[i], section |-> mainsection]]
        names == all_list(module)
    IN /\ Len(hookcalls) <= Len(hooks)
       /\ hookcalls = SubSeq(Registered, 1, Len(hookcalls))
       /\ hookcalls # <<>> =>
             /\ idx > Len(names)
             /\ \A i \in 1..Len(names) : CallsFor(mainsection, names[i]) # <<>>
       /\ DispatchRaised => hookcalls = <<>>
       /\ (pc = "done" \/ (pc = "failed" /\ ~DispatchRaised /\ mainsection # 0
                             /\ error.type # "NoDocstring")) =>
             hookcalls = Registered

\* The names dispatched against a section so far, in order (every dispatch
\* starts with the newest parsing function).
DispatchOrder(section) ==
    LET First(c) == c.sect = section /\ c.func = registry[Len(registry)]
        firsts == SelectSeq(calls, First)
    IN [i \in 1..Len(firsts) |-> firsts[i].name]

\* The members of the module that parse_module puts in its submodules
\* list: the importable direct submodules of a package.
IsSubmodule(name) == module.package /\ name \in module.files

\* The public names of the module's namespace once parse_module has
\* imported it (the public files of a package are then part of it).
PublicNames ==
    {name \in module.dir \cup (IF module.package THEN module.files ELSE {}) :
        name \notin {"_hidden", "_priv", "__init__"}}

\* The buckets of the order of a module without __all__.
Bucket(name) ==
    LET value == ModuleAttr(name)
        exception == value.kind = "class" /\ ExceptionBase \in
                         {value.bases[i] : i \in 1..Len(value.bases)}
    IN IF value.kind \in {"class", "enum"} /\ ~exception THEN 1
       ELSE IF value.kind = "func" THEN 2
       ELSE IF exception THEN 3
       ELSE 4

\* Whether the distinct names of seq are in the relative order of the
\* sequence order.
InOrderOf(seq, order) ==
    \A i, j \in 1..Len(seq) :
        i < j => \E a, b \in 1..Len(order) :
                    a < b /\ order[a] = seq[i] /\ order[b] = seq[j]

\* The member loop of the current call is over.
MembersDone == pc \in {"hooks", "done"} \/ (pc = "idle" /\ docs # <<>>)

\* C14: the members are dispatched in the order of __all__ if there is
\* one, otherwise the public names are, sorted by bucket and by name inside
\* a bucket; the sections below the root are in that relative order.
C14_MemberOrder ==
    mainsection # 0 =>
        LET order == DispatchOrder(mainsection)
            below == [i \in 1..Len(heap[mainsection].subs) |->
                         heap[heap[mainsection].subs[i]].name]
            members == {order[i] : i \in 1..Len(order)}
        IN /\ module.hasall =>
                 /\ InOrderOf(order, module.all)
                 /\ MembersDone =>
                       members = {module.all[i] : i \in 1..Len(module.all)}
                                     \ {n \in Names \cup AttrNames \cup FileNames :
                                            IsSubmodule(n)}
           /\ ~module.hasall =>
                 /\ \A i, j \in 1..Len(order) :
                       i < j => \/ Bucket(order[i]) < Bucket(order[j])
                                \/ /\ Bucket(order[i]) = Bucket(order[j])
                                   /\ NameRank(order[i]) < NameRank(order[j])
                 /\ members \subseteq PublicNames
                 /\ MembersDone =>
                       members = {n \in PublicNames : ~IsSubmodule(n)}
           /\ \A i \in 1..Len(below) :
                 heap[heap[mainsection].subs[i]].cls = "ObjectSection"
           /\ InOrderOf(below, order)

\* A module without __all__ was documented: its class, function, exception
\* class and integer were dispatched in the order of the buckets, against
\* the order of their names.
C14_Witness ==
    /\ pc = "hooks"
    /\ ~module.hasall
    /\ DispatchOrder(mainsection) = <<"K", "f", "Err", "x">>
    /\ Len(heap[mainsection].subs) = 3

\* The member names the loop of parse_module has been through.
Handled ==
    LET names == IF module.hasall THEN {module.all[i] : i \in 1..Len(module.all)}
                 ELSE PublicNames
    IN IF MembersDone THEN names
       ELSE {name \in names :
                \/ CallsFor(mainsection, name) # <<>>
                \/ \E i \in 1..Len(submodules) :
                      submodules[i] = module.name \o "." \o name}

\* C15: a member name that imports as a direct submodule of a package is
\* put in the submodules list, once, and nothing is made for it; any other
\* name is dispatched against the root and is not in the list; the list of
\* a module that is no package is empty.
C15_SubmoduleOrDispatched ==
    mainsection # 0 =>
        /\ \A name \in Handled :
              LET listed == {i \in 1..Len(submodules) :
                               submodules[i] = module.name \o "." \o name}
              IN IF IsSubmodule(name)
                 THEN /\ Cardinality(listed) = 1
                      /\ CallsFor(mainsection, name) = <<>>
                      /\ name \notin DataNames(mainsection)
                      /\ \A s \in Current : heap[s].name # name
                 ELSE /\ listed = {}
                      /\ CallsFor(mainsection, name) # <<>>
        /\ Len(submodules) = Cardinality({name \in Handled : IsSubmodule(name)})
        /\ ~module.package => submodules = <<>>

\* A package whose __all__ names a function and a submodule was documented.
C15_Witness ==
    /\ pc = "done"
    /\ module.package
    /\ module.all = <<"f", "sub">>
    /\ submodules = <<"mod.sub">>
    /\ Len(heap[mainsection].subs) = 1

\* The first line of the module's docstring, as inspect.cleandoc leaves it.
Summary ==
    LET doc == cleandoc(module.doc)
        ends == {i \in 1..Len(doc) : doc[i] = "\n"}
    IN IF ends = {} THEN doc
       ELSE SubSeq(doc, 1, (CHOOSE i \in ends : \A j \in ends : i <= j) - 1)

\* A word that is capitalized with all its other letters lowercase.
Capitalized(word) ==
    /\ word # <<>>
    /\ c_isupper(word[1])
    /\ \A i \in 2..Len(word) : ~c_isupper(word[i])

\* Text without the '.', '?' and '!' characters at its end.
Unpunctuated(text) ==
    LET inside == {i \in 1..Len(text) : text[i] \notin {".", "?", "!"}}
    IN IF inside = {} THEN <<>>
       ELSE SubSeq(text, 1, CHOOSE i \in inside : \A j \in inside : j <= i)

\* The summary line with its first word in lowercase if it is capitalized,
\* and without the punctuation at its end.
Cleaned(line) ==
    LET spaces == {i \in 1..Len(line) : line[i] = " "}
        n == IF spaces = {} THEN Len(line)
             ELSE (CHOOSE i \in spaces : \A j \in spaces : i <= j) - 1
        word == SubSeq(line, 1, n)
    IN Unpunctuated([i \in 1..Len(line) |->
                        IF i <= n /\ Capitalized(word) THEN c_lower(line[i])
                        ELSE line[i]])

\* C16: the root's title is the module name, or the module name, " - "
\* and the cleaned first line of the docstring when that line is not empty;
\* the first word is put in lowercase if and only if it is capitalized
\* with all its other letters lowercase.
C16_RootTitleCleaned ==
    mainsection # 0 =>
        heap[mainsection].title =
            IF Summary = <<>> THEN module.name
            ELSE module.name \o " - " \o Concat(Cleaned(Summary))

\* How many times a parsing function is in the registry.
Copies(f) == Cardinality({i \in 1..Len(registry) : registry[i] = f})

\* How many times a dispatch called a parsing function.
TimesCalled(section, name, f) ==
    LET mine == CallsFor(section, name)
    IN Cardinality({i \in 1..Len(mine) : mine[i].func = f})

\* A step changes the registry only by putting one entry at its end, and
\* parsingfunc returns the function it was given.
RegistryAppendOnly ==
    /\ Len(registry') \in {Len(registry), Len(registry) + 1}
    /\ SubSeq(registry', 1, Len(registry)) = registry
    /\ \A f \in CustomFuncs :
          /\ parsingfunc(registry, f).result = f
          /\ Len(parsingfunc(registry, f).funcs) = Len(registry) + 1

\* No copy of a twice-registered parsing function is left out of a dispatch.
BothCopiesFire ==
    \A k \in 1..Len(calls) :
        \A f \in CustomFuncs :
            TimesCalled(calls[k].sect, calls[k].name, f) = Copies(f)

\* The copies are tried newest first like any other entries: all of them
\* are called for a value they decline, only the newest for a value it
\* accepts, which gets one section.
CopiesTriedInTurn ==
    \A k \in 1..Len(calls) :
        LET c == calls[k]
            accepted == ValueAt(c.sect, c.name).kind = "str"
        IN /\ TimesCalled(c.sect, c.name, "parse_string")
                 = IF accepted /\ Copies("parse_string") > 0 THEN 1
                   ELSE Copies("parse_string")
           /\ (accepted /\ Copies("parse_string") > 0) =>
                 Cardinality(SectionsFor(c.sect, c.name)) = 1

\* C17 as stated: the registry only grows at its end, a parsing function
\* may be registered twice, and both copies are called in every dispatch.
C17_BothCopiesFire == [][RegistryAppendOnly]_vars /\ []BothCopiesFire

\* C17 as amended: the registry only grows at its end, a parsing function
\* may be registered twice, and a dispatch calls the copies in turn until
\* one accepts the value.
C17_CopiesTriedInTurn == [][RegistryAppendOnly]_vars /\ []CopiesTriedInTurn

\* With parse_string registered twice, a string and an integer were
\* dispatched.
C17_Witness ==
    /\ Copies("parse_string") = 2
    /\ TimesCalled(mainsection, "hello", "parse_string") = 1
    /\ TimesCalled(mainsection, "x", "parse_string") = 2

\* C18: with --yes, when the output path exists, main() asks nothing and
\* goes on as after the answer yes: what was at the path is removed before
\* anything is written.
C18_YesRemovesOutdir ==
    (cli.yes /\ cli.module_ok /\ cli.pc \in {"writing", "parsing", "exit"}) =>
        /\ cli.prompts = 0
        /\ ~cli.stale

\* The bucket of a class member in the order of parse_class.
ClassBucket(value) ==
    CASE value.kind = "func" -> 1
      [] value.kind = "classmethod" -> 2
      [] value.kind = "staticmethod" -> 3
      [] value.kind = "prop" -> 4
      [] OTHER -> 5

\* C19: parse_class dispatches the members of the class's own dictionary
\* that are public or __init__, regular methods first, then classmethods,
\* staticmethods, properties and other data, by name inside each bucket.
C19_ClassMemberOrder ==
    \A s \in Current :
        (heap[s].cls = "ObjectSection" /\ heap[s].value = "class") =>
            LET cls == ModuleAttr(heap[s].name)
                order == DispatchOrder(s)
            IN /\ \A i \in 1..Len(order) :
                     /\ \E j \in 1..Len(cls.dict) : cls.dict[j][1] = order[i]
                     /\ order[i] \notin {"_hidden", "_priv"}
               /\ \A i, j \in 1..Len(order) :
                     i < j =>
                        LET a == ClassBucket(ValueAt(s, order[i]))
                            b == ClassBucket(ValueAt(s, order[j]))
                        IN \/ a < b
                           \/ a = b /\ NameRank(order[i]) < NameRank(order[j])

\* The calls of parse_enum on enum classes, with the class.
EnumCalls ==
    {k \in 1..Len(calls) :
        /\ calls[k].func = "parse_enum"
        /\ ValueAt(calls[k].sect, calls[k].name).kind = "enum"}

\* The section parse_enum made for call k is the last of the parent's subs
\* so far and is titled 'enum <name>'.
EnumSection(k, t) ==
    /\ t \in Children(heap, calls[k].sect)
    /\ heap[t].title = "enum " \o calls[k].name
    /\ heap[t].value = "enum"

\* C20 as stated: parse_enum accepts every enum class, raises nothing and
\* appends a section 'enum <name>', whose content is the cleaned docstring
\* if there is one and a text made from the members otherwise.
C20_EnumAlwaysAccepted ==
    \A k \in EnumCalls :
        LET value == ValueAt(calls[k].sect, calls[k].name)
            made == SectionsFor(calls[k].sect, calls[k].name)
        IN /\ calls[k].result = "True"
           /\ Cardinality(made) = 1
           /\ \A t \in made :
                 /\ EnumSection(k, t)
                 /\ heap[t].content # NoneSeq
                 /\ value.doc # NoneSeq => heap[t].content = Stripped(value.doc)

\* C20 as amended: parse_enum raises NoDocstring for an enum class without
\* a docstring and makes nothing for it; a documented one gets a section
\* 'enum <name>' with the cleaned docstring.
C20_EnumUndocumentedRaises ==
    \A k \in EnumCalls :
        LET value == ValueAt(calls[k].sect, calls[k].name)
            made == SectionsFor(calls[k].sect, calls[k].name)
        IN IF value.doc = NoneSeq
           THEN /\ calls[k].result = "NoDocstring"
                /\ made = {}
                /\ pc = "failed"
                /\ NoDocstring_str(error) =
                       "'" \o fullname(heap, calls[k].sect) \o "." \o calls[k].name
                       \o "' doesn't have a docstring"
           ELSE /\ calls[k].result = "True"
                /\ Cardinality(made) = 1
                /\ \A t \in made :
                      /\ EnumSection(k, t)
                      /\ heap[t].content = Stripped(value.doc)

\* A documented enum class got its section, then an undocumented one made
\* parse_module fail.
C20_Witness ==
    /\ pc = "failed"
    /\ error = NoDocstring(<<ModuleName, "F">>)
    /\ \E s \in Children(heap, mainsection) : heap[s].title = "enum E"

\* How many times a token is in a text.
Occurrences(text, tok) == Cardinality({i \in 1..Len(text) : text[i] = tok})

\* C21: when parse_data recorded a pair for the root, the tree parse_module
\* returns has the root's data section as the last of the root's subs,
\* and a dump of the tree has the line of each recorded pair once.
C21_ModuleDataKept ==
    /\ (pc = "done" /\ Recorded(mainsection) # <<>>) =>
          /\ heap[mainsection].ds # 0
          /\ heap[mainsection].subs # <<>>
          /\ heap[mainsection].subs[Len(heap[mainsection].subs)] = heap[mainsection].ds
    /\ (pc = "idle" /\ docs # <<>> /\ Recorded(mainsection) # <<>>) =>
          \A i \in 1..Len(Recorded(mainsection)) :
              Occurrences(docs[Len(docs)].text,
                          DataLine(Recorded(mainsection)[i][1],
                                   Recorded(mainsection)[i][2])) = 1

\* The lists of a sequence of lists, one after the other.
RECURSIVE Flatten(_)
Flatten(lists) == IF lists = <<>> THEN <<>> ELSE Head(lists) \o Flatten(Tail(lists))

\* Whether main() has come to the module loop.
InLoop == cli.module_ok /\ cli.pc \in {"writing", "parsing", "exit"}

\* Whether a file was written at the path of the module of that name.
HasFile(name) ==
    \E i \in 1..Len(cli.files) : cli.files[i].path = outfile(cli.tree[name])

\* The title of the root section of a module of that name.
TitleOf(name) == module_title(name, partition(cleandoc(ModuleDoc), "\n")[1])

\* The state of the module loop.
\*  - The names parse_module was called with and the names still queued
\*    are the requested module and then, with submodules enabled, the names
\*    parse_module returned, in the order it returned them; with
\*    --no-submodules the returned names are noted as not documented.
\*  - The files written are those of the first modules parse_module was
\*    called with, each at its path and with its dump, and a file is
\*    written only once parse_module has returned for its module.
\*  - When main() ends with an exception, the module whose parse_module
\*    call raised and the modules still queued have no file.
\*  - When main() ends without one, the queue is empty, every module
\*    parse_module was called with has its file, and the names that were
\*    not documented are the last line printed.
QueueLoop ==
    InLoop =>
        /\ cli.parsed \o cli.module_queue =
               IF cli.no_submodules THEN <<ModuleName>>
               ELSE <<ModuleName>> \o Flatten(cli.returned)
        /\ cli.undocumented = IF cli.no_submodules THEN Flatten(cli.returned) ELSE <<>>
        /\ Len(cli.files) <= Len(cli.returned)
        /\ cli.documented = Len(cli.files)
        /\ \A i \in 1..Len(cli.files) :
               /\ cli.files[i].path = outfile(cli.tree[cli.parsed[i]])
               /\ cli.files[i].text[3] = TitleOf(cli.parsed[i])
        /\ (cli.pc = "exit" /\ cli.error # None) =>
               /\ Len(cli.parsed) > Len(cli.returned) => ~HasFile(cli.modname)
               /\ \A i \in 1..Len(cli.module_queue) : ~HasFile(cli.module_queue[i])
        /\ (cli.pc = "exit" /\ cli.error = None) =>
               /\ cli.module_queue = <<>>
               /\ Len(cli.files) = Len(cli.parsed)
               /\ (~cli.quiet /\ cli.undocumented # <<>>) =>
                      cli.out[Len(cli.out)] = table(cli.undocumented)

\* C22: the module loop takes the names first in, first out, beginning
\* with the requested module, queues (or with --no-submodules lists as not
\* documented) every name parse_module returns, writes the file of a module
\* after parse_module has returned for it, and comes to an end: when no
\* call raises, with the queue empty and the file of every queued module
\* written; when parse_module or the opening of a file raises, with that
\* exception, and then the modules still queued are left without a file.
C22_QueueLoop == []QueueLoop /\ ((cli.pc = "writing") ~> (cli.pc = "exit"))

\* C22 as claimed: when main() has ended, and found the output path fit to
\* write to, every name parse_module returned with submodules enabled was
\* passed to parse_module, and has its file unless that call raised.
C22_EverySubmoduleParsed ==
    (InLoop /\ cli.pc = "exit" /\ ~cli.no_submodules /\ cli.error # "FileExistsError") =>
        \A i \in 1..Len(Flatten(cli.returned)) :
            /\ \E j \in 1..Len(cli.parsed) : cli.parsed[j] = Flatten(cli.returned)[i]
            /\ \/ HasFile(Flatten(cli.returned)[i])
               \/ /\ Len(cli.parsed) > Len(cli.returned)
                  /\ cli.modname = Flatten(cli.returned)[i]

C22_Witness ==
    /\ cli.pc = "exit"
    /\ cli.error = None
    /\ ~cli.no_submodules
    /\ cli.parsed = <<"mod", "mod.sub", "mod.util", "mod.sub.util">>
    /\ Len(cli.files) = 4
====
